---- MODULE Spec2Model ----
(***************************************************************************)
(* A model of the SharePoint connector: the singleton connection           *)
(* (sharepointConnector.py) and the file manager built on it               *)
(* (sharepointManager.py), together with the remote document library,     *)
(* the client context's queue of pending requests and the recycle bin.     *)
(*                                                                         *)
(* File names and local paths are sequences of one-character strings, so   *)
(* that os.path.splitext, os.path.basename and the f-string that builds a  *)
(* suffixed name are computed character by character.                      *)
(***************************************************************************)
EXTENDS Integers, Sequences, FiniteSets, TLC

VARIABLES
    instConn,        \* SharePointConnection._instance (class attribute)
    instFM,          \* SharePointFileManager.__dict__['_instance'], when assigned
    handles,         \* number of ClientContext objects created so far
    call,            \* the last constructor call: its class, result, __new__ runs
    folder,          \* self.folder: the bound folder context
    existing_files,  \* self.existing_files
    remoteFiles,     \* remote service: the files of each folder
    remoteFolders,   \* remote service: the sub-folders of each folder
    queue,           \* self.ctx: requests queued and not yet executed
    recycleBin,      \* remote service: the site recycle bin, in service order
    op,              \* the last file manager operation and its arguments
    out,             \* what the last operation printed, in order
    ret,             \* what the last operation returned
    nops             \* single-file operations run so far (see MaxOps)

vars ==
    <<instConn, instFM, handles, call, folder, existing_files, remoteFiles,
      remoteFolders, queue, recycleBin, op, out, ret, nops>>

sessionVars ==
    <<instConn, instFM, handles, call>>

managerVars ==
    <<folder, existing_files, remoteFiles, remoteFolders, queue, op, out, ret, nops>>

-----------------------------------------------------------------------------
(* Bounds of the model.                                                    *)

\* Single-file operations in one behaviour of the file manager: a batch
\* helper counts one for each item of its list (one for an empty list), and
\* set_folder_ctx, which sends nothing, is not counted.
MaxOps == 3

\* Largest suffix whose name may already be known when get_file_name is
\* checked on its own.
MaxSuffix == 10

\* Items in the recycle bin.
MaxBin == 3

\* Distinct deletion times of the items in the recycle bin.
MaxDate == 3

-----------------------------------------------------------------------------
(* Characters, names and paths.                                            *)

None == "None"

DigitChar ==
    <<"0", "1", "2", "3", "4", "5", "6", "7", "8", "9">>

RECURSIVE Str(_)
\* str(n) of a non-negative integer, as the f-string formats it.
Str(n) ==
    IF n < 10 THEN <<DigitChar[n + 1]>>
    ELSE Str(n \div 10) \o <<DigitChar[(n % 10) + 1]>>

\* p.rfind(c), 1-based: the last index of c in p, 0 when there is none.
RFind(p, c) ==
    LET hits == {i \in 1..Len(p) : p[i] = c}
    IN  IF hits = {} THEN 0 ELSE CHOOSE i \in hits : \A j \in hits : j <= i

\* os.path.basename(p): what follows the last separator.
Basename(p) ==
    SubSeq(p, RFind(p, "/") + 1, Len(p))

\* os.path.splitext(p): the extension starts at the last dot, when that dot
\* follows the last separator and some character of the file name before it
\* is not a dot; otherwise the extension is empty.
SplitExt(p) ==
    LET sepIndex == RFind(p, "/")
        dotIndex == RFind(p, ".")
    IN  IF /\ dotIndex > sepIndex
           /\ \E k \in (sepIndex + 1)..(dotIndex - 1) : p[k] # "."
        THEN [base |-> SubSeq(p, 1, dotIndex - 1), ext |-> SubSeq(p, dotIndex, Len(p))]
        ELSE [base |-> p, ext |-> <<>>]

\* f"{base_name}_{unique_suffix}{ext}"
Suffixed(base_name, unique_suffix, ext) ==
    base_name \o <<"_">> \o Str(unique_suffix) \o ext

RECURSIVE NameLoop(_, _, _, _, _)
\* while file_name in self.existing_files: ...
NameLoop(file_name, base_name, ext, unique_suffix, known) ==
    IF file_name \in known
    THEN NameLoop(Suffixed(base_name, unique_suffix, ext), base_name, ext,
                  unique_suffix + 1, known)
    ELSE file_name

\* get_file_name as it would be were the counter to start at 2.
get_file_name_from_two(file_name, known) ==
    LET se == SplitExt(file_name)
    IN  NameLoop(file_name, se.base, se.ext, 2, known)

\* get_file_name(file_name) with self.existing_files = known:
\* unique_suffix = 1, then the loop.
get_file_name(file_name, known) ==
    LET se == SplitExt(file_name)
    IN  NameLoop(file_name, se.base, se.ext, 1, known)

-----------------------------------------------------------------------------
(* The connection singleton and the constructors.                          *)

\* Argument values: None, or a non-empty string (truthy).
Values ==
    {None, "x"}

Truthy(v) ==
    v # None

NewParams ==
    <<"site_url", "username", "password", "client_id", "client_secret">>

InitParams ==
    <<"site_url", "relative_url", "username", "password", "client_id", "client_secret">>

ParamNames ==
    {InitParams[i] : i \in 1..Len(InitParams)}

\* Python's binding of a call (positional values pos, keywords kw, each
\* keyword given a non-empty string) to a signature whose first nreq
\* parameters have no default and whose others default to None.  A call
\* that does not bind raises TypeError.
Bind(params, nreq, pos, kw) ==
    LET names  == {params[i] : i \in 1..Len(params)}
        byPos  == {params[i] : i \in 1..(IF Len(pos) < Len(params) THEN Len(pos) ELSE Len(params))}
        ok     == /\ Len(pos) <= Len(params)
                  /\ kw \subseteq names
                  /\ kw \cap byPos = {}
                  /\ \A i \in 1..nreq : params[i] \in byPos \cup kw
        val(n) == IF n \in byPos THEN pos[CHOOSE i \in 1..Len(params) : params[i] = n]
                  ELSE IF n \in kw THEN "x"
                  ELSE None
    IN  [ok |-> ok, vals |-> [n \in ParamNames |-> IF ok /\ n \in names THEN val(n) ELSE None]]

\* No instance: the class attribute is None (SharePointConnection) or was
\* never assigned (SharePointFileManager).
NoObj ==
    [cls |-> "None", site_url |-> None, username |-> None, password |-> None,
     client_id |-> None, client_secret |-> None, ctx |-> 0, mode |-> "none",
     inited |-> FALSE]

UserPair(o) ==
    Truthy(o.username) /\ Truthy(o.password)

ClientPair(o) ==
    Truthy(o.client_id) /\ Truthy(o.client_secret)

\* _connect_to_sharepoint, were the else branch to fall back to the client
\* credentials instead of raising.
ConnectNeverRaises(o) ==
    IF UserPair(o) THEN [raised |-> FALSE, mode |-> "user"]
    ELSE [raised |-> FALSE, mode |-> "client"]

\* _connect_to_sharepoint: which credential the ClientContext is built
\* with, or ValueError.
ConnectToSharepoint(o) ==
    IF UserPair(o) THEN [raised |-> FALSE, mode |-> "user"]
    ELSE IF ClientPair(o) THEN [raised |-> FALSE, mode |-> "client"]
    ELSE [raised |-> TRUE, mode |-> "none"]

\* cls._instance as Python looks it up: the subclass's own attribute when it
\* was assigned, the base class's otherwise.
Lookup(cls, s) ==
    IF cls = "SharePointFileManager" /\ s.fm # NoObj THEN s.fm ELSE s.conn

\* cls._instance = value
Assign(cls, s, value) ==
    IF cls = "SharePointFileManager" THEN [s EXCEPT !.fm = value]
    ELSE [s EXCEPT !.conn = value]

\* SharePointConnection.__new__(cls, site_url, username, ...) on the session
\* state s = [conn, fm, handles, events, raised].  The instance is stored in
\* cls._instance before _connect_to_sharepoint runs, so it stays there when
\* that raises.
New(cls, v, s) ==
    IF Lookup(cls, s) = NoObj
    THEN LET o == [cls |-> cls, site_url |-> v["site_url"], username |-> v["username"],
                   password |-> v["password"], client_id |-> v["client_id"],
                   client_secret |-> v["client_secret"], ctx |-> 0, mode |-> "none",
                   inited |-> FALSE]
             c == ConnectToSharepoint(o)
             h == IF c.raised THEN 0 ELSE s.handles + 1
             e == [cls |-> cls, creds |-> o, fresh |-> TRUE, raised |-> c.raised,
                   handle |-> h, mode |-> c.mode]
         IN  [Assign(cls, s, [o EXCEPT !.ctx = h, !.mode = c.mode])
                EXCEPT !.handles = IF c.raised THEN @ ELSE @ + 1,
                       !.events = Append(@, e),
                       !.raised = c.raised]
    ELSE LET o == [NoObj EXCEPT !.cls = cls, !.site_url = v["site_url"],
                     !.username = v["username"], !.password = v["password"],
                     !.client_id = v["client_id"], !.client_secret = v["client_secret"]]
             e == [cls |-> cls, creds |-> o, fresh |-> FALSE, raised |-> FALSE,
                   handle |-> 0, mode |-> "none"]
         IN  [s EXCEPT !.events = Append(@, e), !.raised = FALSE]

Result(s, cls, result, returned) ==
    [conn |-> s.conn, fm |-> s.fm, handles |-> s.handles,
     call |-> [cls |-> cls, result |-> result, returned |-> returned, events |-> s.events]]

\* SharePointConnection(*pos, **kw): __new__; the class defines no __init__.
ConstructConnection(pos, kw, s0) ==
    LET s == [s0 EXCEPT !.events = <<>>, !.raised = FALSE]
        b == Bind(NewParams, 1, pos, kw)
        n == New("SharePointConnection", b.vals, s)
    IN  IF ~b.ok THEN Result(s, "SharePointConnection", "TypeError", "none")
        ELSE IF n.raised THEN Result(n, "SharePointConnection", "ValueError", "none")
        ELSE Result(n, "SharePointConnection", "ok", "SharePointConnection")

\* SharePointFileManager(*pos, **kw): the inherited __new__ gets the same
\* arguments as __init__; __init__ runs when __new__ returned an instance of
\* the file manager, and constructs a SharePointConnection of its own.
ConstructFileManager(pos, kw, s0) ==
    LET s  == [s0 EXCEPT !.events = <<>>, !.raised = FALSE]
        b1 == Bind(NewParams, 1, pos, kw)
        n1 == New("SharePointFileManager", b1.vals, s)
        r1 == Lookup("SharePointFileManager", n1)
        b2 == Bind(InitParams, 2, pos, kw)
        n2 == New("SharePointConnection", b2.vals, n1)
        n3 == [n2 EXCEPT !.fm.inited = TRUE]
    IN  IF ~b1.ok THEN Result(s, "SharePointFileManager", "TypeError", "none")
        ELSE IF n1.raised THEN Result(n1, "SharePointFileManager", "ValueError", "none")
        ELSE IF r1.cls # "SharePointFileManager"
             THEN Result(n1, "SharePointFileManager", "ok", r1.cls)
        ELSE IF ~b2.ok THEN Result(n1, "SharePointFileManager", "TypeError", "none")
        ELSE IF n2.raised THEN Result(n2, "SharePointFileManager", "ValueError", "none")
        ELSE Result(n3, "SharePointFileManager", "ok", "SharePointFileManager")

\* The calls the model makes: up to six positional arguments, each a
\* non-empty string, and up to two keywords.
PosArgs ==
    {[i \in 1..n |-> "x"] : n \in 0..6}

KwArgs ==
    {k \in SUBSET (ParamNames \ {"site_url"}) : Cardinality(k) <= 2}

NoCall ==
    [cls |-> "None", result |-> "none", returned |-> "none", events |-> <<>>]

SessionNow ==
    [conn |-> instConn, fm |-> instFM, handles |-> handles, events |-> <<>>,
     raised |-> FALSE]

SetSession(r) ==
    /\ instConn' = r.conn
    /\ instFM' = r.fm
    /\ handles' = r.handles
    /\ call' = r.call

NewConnection ==
    /\ \E pos \in PosArgs, kw \in KwArgs :
          SetSession(ConstructConnection(pos, kw, SessionNow))
    /\ UNCHANGED <<managerVars, recycleBin>>

NewFileManager ==
    /\ \E pos \in PosArgs, kw \in KwArgs :
          SetSession(ConstructFileManager(pos, kw, SessionNow))
    /\ UNCHANGED <<managerVars, recycleBin>>

-----------------------------------------------------------------------------
(* The remote library and the state of a file manager.                     *)

\* The server-relative folders a context can be bound to.
Folders ==
    {"A", "B"}

\* The last operation: its name and arguments (paths or names; a number n,
\* or None for it), and what it did: the files of the bound folder when it
\* started, the files that uploads queued by upload_file_without_override
\* replaced while it ran, the recycle-bin items recover_data was given, those
\* it called restore() on and those the service restored, and whether an
\* exception reached the caller.
NoOp ==
    [name |-> "none", paths |-> <<>>, n |-> 0, noneArg |-> FALSE, before |-> {},
     clobbered |-> {}, got |-> <<>>, attempted |-> <<>>, restored |-> {},
     raised |-> FALSE]

\* A return value: None, a file name, or a list of recycle-bin items.
NoRet ==
    [none |-> TRUE, name |-> <<>>, items |-> <<>>]

\* The file manager before anything was bound, on an empty library.
ManagerIdle ==
    /\ folder = None
    /\ existing_files = {}
    /\ remoteFiles = [f \in Folders |-> {}]
    /\ remoteFolders = [f \in Folders |-> {}]
    /\ queue = <<>>
    /\ op = NoOp
    /\ out = <<>>
    /\ ret = NoRet
    /\ nops = 0

-----------------------------------------------------------------------------
(* The client context: requests are queued by the object model and sent    *)
(* by execute_query, oldest first.  A handler runs on a record m holding   *)
(* the file manager's attributes, the remote state and what was printed;   *)
(* m.exc says that an exception is propagating.                            *)

\* A queued request.  "by" is the handler that queued it.
Req(kind, f, name, id, by) ==
    [kind |-> kind, folder |-> f, name |-> name, id |-> id, by |-> by]

\* print(...): the message, the name it shows, and the argument (item) of
\* the single-item handler that printed it.
Line(msg, name, item) ==
    [msg |-> msg, name |-> name, item |-> item]

Say(m, msg, name, item) ==
    [m EXCEPT !.out = Append(@, Line(msg, name, item))]

\* Whether the service refuses request r: the k-th request of the handler
\* meets a remote error when the handler's fault is k; a delete or restore
\* of something that is not there is refused.
Refused(r, m) ==
    \/ m.k = m.fault
    \/ r.kind = "deleteFile" /\ r.name \notin m.files[r.folder]
    \/ r.kind = "deleteFolder" /\ r.name \notin m.folders[r.folder]
    \/ r.kind = "restore" /\ ~\E i \in 1..Len(m.bin) : m.bin[i].id = r.id

\* The effect of request r at the service.  m.clobbered collects the files
\* replaced by an upload that upload_file_without_override queued.
Serve(r, m) ==
    CASE r.kind = "upload" ->
           [m EXCEPT !.files[r.folder] = @ \cup {r.name},
                     !.clobbered = IF /\ r.by = "upload_file_without_override"
                                      /\ r.name \in m.files[r.folder]
                                   THEN @ \cup {r.name} ELSE @]
      [] r.kind = "deleteFile" ->
           [m EXCEPT !.files[r.folder] = @ \ {r.name}]
      [] r.kind = "deleteFolder" ->
           [m EXCEPT !.folders[r.folder] = @ \ {r.name}]
      [] r.kind = "addFolder" ->
           [m EXCEPT !.folders[r.folder] = @ \cup {r.name}]
      [] r.kind = "deleteEntireFolder" ->
           [m EXCEPT !.files[r.folder] = {}, !.folders[r.folder] = {}]
      [] r.kind = "restore" ->
           [m EXCEPT !.bin = SelectSeq(@, LAMBDA it : it.id # r.id),
                     !.restored = @ \cup {r.id}]
      [] OTHER -> m

RECURSIVE execute_query(_)
\* self.ctx.execute_query(): sends the queued requests, oldest first; the
\* request that is refused raises and the later ones stay queued.
execute_query(m) ==
    IF m.queue = <<>> THEN m
    ELSE LET r  == Head(m.queue)
             m1 == [m EXCEPT !.queue = Tail(@), !.k = @ + 1]
         IN  IF Refused(r, m1) THEN [m1 EXCEPT !.exc = TRUE]
             ELSE execute_query(Serve(r, m1))

\* The object model call that queues a request.
Enqueue(m, r) ==
    [m EXCEPT !.queue = Append(@, r)]

RECURSIVE SetToSeq(_)
\* The order in which the service lists a set of names: some fixed order.
SetToSeq(S) ==
    IF S = {} THEN <<>>
    ELSE LET x == CHOOSE y \in S : TRUE
         IN  <<x>> \o SetToSeq(S \ {x})

-----------------------------------------------------------------------------
(* The file manager's methods.                                             *)

\* The local files that exist; every other path is missing.
LocalFiles ==
    { <<"d", "/", "a", ".", "t">>, <<"d", "/", "b">> }

\* The paths a caller passes: the local files and one path that is missing.
LocalPaths ==
    LocalFiles \cup { <<"d", "/", "m">> }

\* set_folder_ctx: the folder handle is built locally, nothing is sent.
set_folder_ctx(m, f) ==
    [m EXCEPT !.folder = f]

\* get_files: None when the context is unbound or the listing is refused.
get_files(m) ==
    IF m.folder = None
    THEN [Say(m, "Error getting files", <<>>, <<>>) EXCEPT !.listed = [none |-> TRUE, names |-> {}]]
    ELSE LET m1 == execute_query(Enqueue(m, Req("listFiles", m.folder, <<>>, 0, "get_files")))
         IN  IF m1.exc
             THEN [Say(m1, "Error getting files", <<>>, <<>>)
                     EXCEPT !.exc = FALSE, !.listed = [none |-> TRUE, names |-> {}]]
             ELSE [m1 EXCEPT !.listed = [none |-> FALSE, names |-> m1.files[m.folder]]]

\* get_folders: as get_files, for the sub-folders.
get_folders(m) ==
    IF m.folder = None
    THEN [Say(m, "Error getting folders", <<>>, <<>>) EXCEPT !.listed = [none |-> TRUE, names |-> {}]]
    ELSE LET m1 == execute_query(Enqueue(m, Req("listFolders", m.folder, <<>>, 0, "get_folders")))
         IN  IF m1.exc
             THEN [Say(m1, "Error getting folders", <<>>, <<>>)
                     EXCEPT !.exc = FALSE, !.listed = [none |-> TRUE, names |-> {}]]
             ELSE [m1 EXCEPT !.listed = [none |-> FALSE, names |-> m1.folders[m.folder]]]

\* _get_existing_files: map() over None raises TypeError, which is caught
\* and leaves self.existing_files as it was.
get_existing_files(m) ==
    LET g == get_files(m)
    IN  IF g.listed.none THEN Say(g, "Error getting existing files", <<>>, <<>>)
        ELSE [g EXCEPT !.existing_files = g.listed.names]

\* _reset_existing_files
reset_existing_files(m) ==
    [m EXCEPT !.existing_files = {}]

\* upload_file with the try/except removed: a failure propagates.
upload_file_uncaught(m, local_path) ==
    LET file_name == Basename(local_path)
        m1 == execute_query(Enqueue(m, Req("upload", m.folder, file_name, 0, "upload_file")))
    IN  IF local_path \notin LocalFiles \/ m.folder = None THEN [m EXCEPT !.exc = TRUE]
        ELSE IF m1.exc THEN m1
        ELSE Say([m1 EXCEPT !.existing_files = @ \cup {file_name}],
                 "Uploaded file with override", file_name, local_path)

\* upload_file
upload_file(m, local_path) ==
    LET file_name == Basename(local_path)
        m1 == execute_query(Enqueue(m, Req("upload", m.folder, file_name, 0, "upload_file")))
    IN  IF local_path \notin LocalFiles \/ m.folder = None
        THEN Say(m, "Error uploading file with override", <<>>, local_path)
        ELSE IF m1.exc
        THEN Say([m1 EXCEPT !.exc = FALSE], "Error uploading file with override", <<>>, local_path)
        ELSE Say([m1 EXCEPT !.existing_files = @ \cup {file_name}],
                 "Uploaded file with override", file_name, local_path)

\* upload_file_without_override(local_path), file_name left to its default
upload_file_without_override(m, local_path) ==
    LET m0 == IF m.existing_files = {} THEN get_existing_files(m) ELSE m
        file_name == get_file_name(Basename(local_path), m0.existing_files)
        m1 == execute_query(Enqueue(m0, Req("upload", m0.folder, file_name, 0,
                                            "upload_file_without_override")))
    IN  IF local_path \notin LocalFiles \/ m0.folder = None
        THEN Say(m0, "Error uploading file without override", <<>>, local_path)
        ELSE IF m1.exc
        THEN Say([m1 EXCEPT !.exc = FALSE], "Error uploading file without override", <<>>, local_path)
        ELSE Say([m1 EXCEPT !.existing_files = @ \cup {file_name}],
                 "Uploaded file without override", file_name, local_path)

\* delete_file with the try/except removed: a failure propagates.
delete_file_uncaught(m, file_name) ==
    LET m1 == execute_query(Enqueue(m, Req("deleteFile", m.folder, file_name, 0, "delete_file")))
    IN  IF m.folder = None THEN [m EXCEPT !.exc = TRUE]
        ELSE IF m1.exc THEN m1
        ELSE Say(m1, "Deleted file", file_name, file_name)

\* delete_file
delete_file(m, file_name) ==
    LET m1 == execute_query(Enqueue(m, Req("deleteFile", m.folder, file_name, 0, "delete_file")))
    IN  IF m.folder = None THEN Say(m, "Error deleting file", <<>>, file_name)
        ELSE IF m1.exc THEN Say([m1 EXCEPT !.exc = FALSE], "Error deleting file", <<>>, file_name)
        ELSE Say(m1, "Deleted file", file_name, file_name)

RECURSIVE UploadEach(_, _)
\* for local_path in local_file_paths: self.upload_file(local_path)
UploadEach(m, paths) ==
    IF paths = <<>> \/ m.exc THEN m
    ELSE UploadEach(upload_file(m, Head(paths)), Tail(paths))

RECURSIVE UploadEachWithoutOverride(_, _)
\* for local_path in local_file_paths: self.upload_file_without_override(local_path)
UploadEachWithoutOverride(m, paths) ==
    IF paths = <<>> \/ m.exc THEN m
    ELSE UploadEachWithoutOverride(upload_file_without_override(m, Head(paths)), Tail(paths))

RECURSIVE DeleteEach(_, _)
\* for file_name in file_names: self.delete_file(file_name)
DeleteEach(m, names) ==
    IF names = <<>> \/ m.exc THEN m
    ELSE DeleteEach(delete_file(m, Head(names)), Tail(names))

\* The except clause of a batch upload.
Caught(m, msg) ==
    IF m.exc THEN Say([m EXCEPT !.exc = FALSE], msg, <<>>, <<>>) ELSE m

\* upload_multiple_files
upload_multiple_files(m, paths) ==
    LET m1 == UploadEach(get_existing_files(m), paths)
    IN  IF m1.exc THEN Caught(m1, "Error uploading multiple files")
        ELSE reset_existing_files(m1)

\* upload_multiple_files_without_override
upload_multiple_files_without_override(m, paths) ==
    LET m1 == UploadEachWithoutOverride(get_existing_files(m), paths)
    IN  IF m1.exc THEN Caught(m1, "Error uploading multiple files without override")
        ELSE reset_existing_files(m1)

\* delete_multiple_files: no try/except of its own.
delete_multiple_files(m, names) ==
    DeleteEach(m, names)

RECURSIVE EnqueueEach(_, _, _)
\* for x in listing: x.delete_object()   (queued, not sent)
EnqueueEach(m, kind, names) ==
    IF names = <<>> THEN m
    ELSE EnqueueEach(Enqueue(m, Req(kind, m.folder, Head(names), 0,
                                    "delete_all_files_and_folders")),
                     kind, Tail(names))

\* delete_all_files_and_folders: iterating over None raises TypeError, which
\* the except clause catches; there is no execute_query after the loops.
delete_all_files_and_folders(m) ==
    LET g1 == get_files(m)
        m1 == EnqueueEach(g1, "deleteFile", SetToSeq(g1.listed.names))
        g2 == get_folders(m1)
        m2 == EnqueueEach(g2, "deleteFolder", SetToSeq(g2.listed.names))
    IN  IF g1.listed.none THEN Say(g1, "Error deleting all files and folders", <<>>, <<>>)
        ELSE IF g2.listed.none THEN Say(g2, "Error deleting all files and folders", <<>>, <<>>)
        ELSE Say(m2, "All files and folders are deleted", <<>>, <<>>)

-----------------------------------------------------------------------------
(* The file manager's operations as actions.                               *)

\* The handler's view of the state when it starts; fault is the number of
\* the request that meets a remote error (0: none does).
Mach(fault) ==
    [folder |-> folder, existing_files |-> existing_files, files |-> remoteFiles,
     folders |-> remoteFolders, queue |-> queue, bin |-> recycleBin, out |-> <<>>,
     fault |-> fault, k |-> 0, exc |-> FALSE, clobbered |-> {}, restored |-> {},
     got |-> <<>>, attempted |-> <<>>, count |-> 0,
     listed |-> [none |-> TRUE, names |-> {}], ret |-> NoRet]

\* A numeric argument: None, or an integer.
NoNum ==
    [none |-> TRUE, n |-> 0]

Num(n) ==
    [none |-> FALSE, n |-> n]

\* What an operation counts for in nops.
Cost(name, paths) ==
    IF name \in {"set_folder_ctx", "get_recently_deleted_items", "recover_data"} THEN 0
    ELSE IF Len(paths) > 1 THEN Len(paths)
    ELSE 1

\* The state the handler leaves.
Commit(m, name, paths, n) ==
    /\ folder' = m.folder
    /\ existing_files' = m.existing_files
    /\ remoteFiles' = m.files
    /\ remoteFolders' = m.folders
    /\ queue' = m.queue
    /\ recycleBin' = m.bin
    /\ out' = m.out
    /\ ret' = m.ret
    /\ op' = [name |-> name, paths |-> paths, n |-> n.n, noneArg |-> n.none,
              before |-> IF folder = None THEN {} ELSE remoteFiles[folder],
              clobbered |-> m.clobbered, got |-> m.got, attempted |-> m.attempted,
              restored |-> m.restored, raised |-> m.exc]
    /\ nops' = nops + Cost(name, paths)
    /\ UNCHANGED sessionVars

\* The remote errors a handler can meet: none, or one at its first or its
\* second request.
FaultChoices ==
    {0, 1, 2}

NoFault ==
    {0}

\* The lists a batch helper can still be given.
PathLists ==
    UNION {[1..n -> LocalPaths] : n \in 0..(MaxOps - nops)}

\* The names a caller asks to delete.
DeleteNames ==
    {Basename(p) : p \in LocalFiles}

NameLists ==
    UNION {[1..n -> DeleteNames] : n \in 0..(MaxOps - nops)}

SetFolderCtx ==
    \E f \in Folders :
          Commit(set_folder_ctx(Mach(0), f), "set_folder_ctx", << <<f>> >>, NoNum)

\* The caller binds a folder before it uses the file operations.
Ready ==
    nops < MaxOps /\ folder # None

UploadFile(F) ==
    /\ Ready
    /\ \E p \in LocalPaths, e \in F :
          Commit(upload_file(Mach(e), p), "upload_file", <<p>>, NoNum)

UploadFileWithoutOverride(F) ==
    /\ Ready
    /\ \E p \in LocalPaths, e \in F :
          Commit(upload_file_without_override(Mach(e), p),
                 "upload_file_without_override", <<p>>, NoNum)

UploadMultipleFiles(F) ==
    /\ Ready
    /\ \E ps \in PathLists, e \in F :
          Commit(upload_multiple_files(Mach(e), ps), "upload_multiple_files", ps, NoNum)

UploadMultipleFilesWithoutOverride(F) ==
    /\ Ready
    /\ \E ps \in PathLists, e \in F :
          Commit(upload_multiple_files_without_override(Mach(e), ps),
                 "upload_multiple_files_without_override", ps, NoNum)

DeleteFile(F) ==
    /\ Ready
    /\ \E n \in DeleteNames, e \in F :
          Commit(delete_file(Mach(e), n), "delete_file", <<n>>, NoNum)

DeleteMultipleFiles(F) ==
    /\ Ready
    /\ \E ns \in NameLists, e \in F :
          Commit(delete_multiple_files(Mach(e), ns), "delete_multiple_files", ns, NoNum)

DeleteAllFilesAndFolders(F) ==
    /\ Ready
    /\ \E e \in F :
          Commit(delete_all_files_and_folders(Mach(e)),
                 "delete_all_files_and_folders", <<>>, NoNum)

\* The session after SharePointFileManager(site_url, relative_url,
\* client_id=..., client_secret=...) as the first construction.
Constructed ==
    ConstructFileManager(<<"x", "x">>, {"client_id", "client_secret"},
                         [conn |-> NoObj, fm |-> NoObj, handles |-> 0,
                          events |-> <<>>, raised |-> FALSE])

\* The files and the sub-folder the library may hold at the start.
InitialFiles ==
    { <<"a", ".", "t">>, <<"a", "_", "1", ".", "t">> }

InitialFolders ==
    { <<"s">> }

\* After construction: nothing bound, the cache empty, nothing queued.
Init ==
    /\ instConn = Constructed.conn
    /\ instFM = Constructed.fm
    /\ handles = Constructed.handles
    /\ call = Constructed.call
    /\ folder = None
    /\ existing_files = {}
    /\ \E fs \in SUBSET InitialFiles :
          remoteFiles = [f \in Folders |-> IF f = "A" THEN fs ELSE {}]
    /\ \E ds \in SUBSET InitialFolders :
          remoteFolders = [f \in Folders |-> IF f = "A" THEN ds ELSE {}]
    /\ queue = <<>>
    /\ recycleBin = <<>>
    /\ op = NoOp
    /\ out = <<>>
    /\ ret = NoRet
    /\ nops = 0

Next ==
    \/ SetFolderCtx
    \/ UploadFile(FaultChoices)
    \/ UploadFileWithoutOverride(FaultChoices)
    \/ UploadMultipleFiles(FaultChoices)
    \/ UploadMultipleFilesWithoutOverride(FaultChoices)
    \/ DeleteFile(FaultChoices)
    \/ DeleteMultipleFiles(FaultChoices)
    \/ DeleteAllFilesAndFolders(FaultChoices)

Spec ==
    Init /\ [][Next]_vars

\* The same operations when no request meets a remote error.
NextNoFault ==
    \/ SetFolderCtx
    \/ UploadFile(NoFault)
    \/ UploadFileWithoutOverride(NoFault)
    \/ UploadMultipleFiles(NoFault)
    \/ UploadMultipleFilesWithoutOverride(NoFault)
    \/ DeleteFile(NoFault)
    \/ DeleteMultipleFiles(NoFault)
    \/ DeleteAllFilesAndFolders(NoFault)

SpecNoFault ==
    Init /\ [][NextNoFault]_vars

\* The lines of the last operation whose message is one of msgs, in order.
Lines(msgs) ==
    SelectSeq(out, LAMBDA e : e.msg \in msgs)

\* C1, as stated: an upload that upload_file_without_override queued never
\* replaces a file that exists in the remote folder.
C1_NeverOverwrites ==
    op.clobbered = {}

\* C3, as stated: the names under which a batch upload without override
\* uploaded are pairwise distinct, and none is the name of a file that was in
\* the folder when the batch started.
C3_BatchNamesFresh ==
    op.name = "upload_multiple_files_without_override" =>
        LET ups == Lines({"Uploaded file without override"})
        IN  /\ \A i, j \in 1..Len(ups) : i # j => ups[i].name # ups[j].name
            /\ \A i \in 1..Len(ups) : ups[i].name \notin op.before

BatchOps ==
    {"upload_multiple_files", "upload_multiple_files_without_override",
     "delete_multiple_files"}

\* What the single-item handler of a batch helper prints for an item.
Done(name) ==
    CASE name = "upload_multiple_files" -> "Uploaded file with override"
      [] name = "upload_multiple_files_without_override" -> "Uploaded file without override"
      [] OTHER -> "Deleted file"

Failed(name) ==
    CASE name = "upload_multiple_files" -> "Error uploading file with override"
      [] name = "upload_multiple_files_without_override" -> "Error uploading file without override"
      [] OTHER -> "Error deleting file"

\* The per-item lines of the last batch.
ItemLines ==
    Lines({Done(op.name), Failed(op.name)})

\* C7: a batch helper attempts every item of its list exactly once and in
\* list order, whatever happened to the items before it, and nothing reaches
\* the caller; an item reported uploaded is in the folder when the batch
\* returns, an item reported deleted is not.
C7_BatchAttemptsEveryItem ==
    op.name \in BatchOps =>
        /\ ~op.raised
        /\ Len(ItemLines) = Len(op.paths)
        /\ \A i \in 1..Len(ItemLines) :
              /\ ItemLines[i].item = op.paths[i]
              /\ (ItemLines[i].msg = Done(op.name) /\ op.name # "delete_multiple_files")
                    => ItemLines[i].name \in remoteFiles[folder]
              /\ (ItemLines[i].msg = Done(op.name) /\ op.name = "delete_multiple_files")
                    => ItemLines[i].name \notin remoteFiles[folder]

\* C7: in the last batch an item failed and the item after it succeeded.
C7_Witness ==
    /\ op.name \in BatchOps
    /\ \E i \in 1..(Len(ItemLines) - 1) :
          /\ ItemLines[i].msg = Failed(op.name)
          /\ ItemLines[i + 1].msg = Done(op.name)

\* C9, as stated: when delete_all_files_and_folders reports success, the
\* bound folder has no file and no sub-folder left and no deletion is still
\* queued.
C9_DeleteAllLeavesNothing ==
    ( /\ op.name = "delete_all_files_and_folders"
      /\ Lines({"All files and folders are deleted"}) # <<>> ) =>
        /\ remoteFiles[folder] = {}
        /\ remoteFolders[folder] = {}
        /\ queue = <<>>

\* C13, as stated: every name in self.existing_files is the name of a file
\* that exists in the folder the context is bound to.
C13_CacheNamesExist ==
    existing_files \subseteq (IF folder = None THEN {} ELSE remoteFiles[folder])

-----------------------------------------------------------------------------
(* The recycle bin: listing the deleted items and restoring them.          *)

\* max(a, b) and min(a, b), as the slice clamps its bound.
Max(a, b) ==
    IF a >= b THEN a ELSE b

Min(a, b) ==
    IF a <= b THEN a ELSE b

\* Where a stable sort in descending order puts x in a sorted list t: after
\* the items deleted at the same time or later.
InsertDesc(x, t) ==
    LET k == Cardinality({i \in 1..Len(t) : t[i].deleted_date >= x.deleted_date})
    IN  SubSeq(t, 1, k) \o <<x>> \o SubSeq(t, k + 1, Len(t))

\* The same for ascending order.
InsertAsc(x, t) ==
    LET k == Cardinality({i \in 1..Len(t) : t[i].deleted_date <= x.deleted_date})
    IN  SubSeq(t, 1, k) \o <<x>> \o SubSeq(t, k + 1, Len(t))

RECURSIVE sorted_oldest_first(_)
\* sorted(items, key=lambda item: item.deleted_date)
sorted_oldest_first(items) ==
    IF items = <<>> THEN <<>>
    ELSE InsertAsc(items[Len(items)], sorted_oldest_first(SubSeq(items, 1, Len(items) - 1)))

RECURSIVE sorted_by_deleted_date(_)
\* sorted(items, key=lambda item: item.deleted_date, reverse=True): items
\* deleted at the same time keep the order of the listing.
sorted_by_deleted_date(items) ==
    IF items = <<>> THEN <<>>
    ELSE InsertDesc(items[Len(items)],
                    sorted_by_deleted_date(SubSeq(items, 1, Len(items) - 1)))

\* items[:max_items] if max_items else items
SlicedIfTruthy(items, max_items) ==
    IF max_items.none \/ max_items.n = 0 THEN items
    ELSE IF max_items.n >= 0 THEN SubSeq(items, 1, Min(max_items.n, Len(items)))
    ELSE SubSeq(items, 1, Max(0, Len(items) + max_items.n))

\* items[:max_items] if max_items is not None else items
Sliced(items, max_items) ==
    IF max_items.none THEN items
    ELSE IF max_items.n >= 0 THEN SubSeq(items, 1, Min(max_items.n, Len(items)))
    ELSE SubSeq(items, 1, Max(0, Len(items) + max_items.n))

\* get_recently_deleted_items: two loads, each sent by its execute_query;
\* a failure is printed and the method returns None.
get_recently_deleted_items(m, max_items) ==
    LET m1 == execute_query(Enqueue(m, Req("loadBin", None, <<>>, 0,
                                           "get_recently_deleted_items")))
        m2 == execute_query(Enqueue(m1, Req("loadItems", None, <<>>, 0,
                                            "get_recently_deleted_items")))
        e  == IF m1.exc THEN m1 ELSE m2
    IN  IF e.exc
        THEN [Say(e, "Error getting recently deleted items", <<>>, <<>>)
                EXCEPT !.exc = FALSE, !.ret = NoRet]
        ELSE [m2 EXCEPT !.ret = [none |-> FALSE, name |-> <<>>,
                                 items |-> Sliced(sorted_by_deleted_date(m2.bin),
                                                  max_items)]]

RECURSIVE RestoreEach(_, _, _, _, _)
\* The loop of recover_data from item i on.  restored_count < None raises
\* TypeError.  item.restore() queues the restore; when it raises (at item
\* raiseAt) the handler calls self.restore_folder, which the class does not
\* have, so AttributeError propagates.  execute_query is outside the inner
\* try: a refused restore propagates as well.
RestoreEach(m, items, i, num_to_restore, raiseAt) ==
    IF i > Len(items) \/ m.exc THEN m
    ELSE IF num_to_restore.none THEN [m EXCEPT !.exc = TRUE]
    ELSE IF ~(m.count < num_to_restore.n)
         THEN RestoreEach(m, items, i + 1, num_to_restore, raiseAt)
    ELSE LET a == [m EXCEPT !.attempted = Append(@, items[i].id)]
             q == execute_query(Enqueue(a, Req("restore", None, <<>>, items[i].id,
                                               "recover_data")))
         IN  IF raiseAt = i THEN [a EXCEPT !.exc = TRUE]
             ELSE IF q.exc THEN q
             ELSE RestoreEach([Say(q, "Item recovered", <<>>, <<>>)
                                 EXCEPT !.count = @ + 1],
                              items, i + 1, num_to_restore, raiseAt)

\* recover_data: iterating over None raises TypeError; whatever leaves the
\* loop is printed by the outer except.  The method returns None.
recover_data(m, num_to_restore, raiseAt) ==
    LET g == get_recently_deleted_items(m, num_to_restore)
        l == RestoreEach([g EXCEPT !.got = g.ret.items, !.ret = NoRet],
                         g.ret.items, 1, num_to_restore, raiseAt)
    IN  IF g.ret.none THEN Say(g, "Error restoring files", <<>>, <<>>)
        ELSE IF l.exc
             THEN [Say(l, "Error restoring files", <<>>, <<>>) EXCEPT !.exc = FALSE]
        ELSE Say(l, "Restored", Str(l.count), <<>>)

\* What the recycle bin may hold at the start: the items in the order the
\* service lists them.
Bins ==
    UNION { { [i \in 1..n |-> [id |-> i, deleted_date |-> d[i]]] :
                d \in [1..n -> 1..MaxDate] } : n \in 0..MaxBin }

\* The numbers a caller passes: None, or an integer.
NumArgs ==
    {NoNum} \cup {Num(n) : n \in (0 - 1)..(MaxBin + 1)}

\* The remote errors of a recycle-bin handler: none, or one at a load or at
\* a restore.
RecycleFaults ==
    0..(MaxBin + 2)

GetRecentlyDeletedItems ==
    \E n \in NumArgs, e \in RecycleFaults :
          Commit(get_recently_deleted_items(Mach(e), n),
                 "get_recently_deleted_items", <<>>, n)

\* What goes wrong in one recover_data: nothing, one remote error, or
\* item.restore() raising at one item.
RestoreFailures ==
    {[fault |-> e, raiseAt |-> 0] : e \in RecycleFaults}
        \cup {[fault |-> 0, raiseAt |-> i] : i \in 1..MaxBin}

RecoverData ==
    \E n \in NumArgs, x \in RestoreFailures :
          Commit(recover_data(Mach(x.fault), n, x.raiseAt), "recover_data", <<>>, n)

\* After construction, with deleted items in the recycle bin.
InitRecycle ==
    /\ instConn = Constructed.conn
    /\ instFM = Constructed.fm
    /\ handles = Constructed.handles
    /\ call = Constructed.call
    /\ ManagerIdle
    /\ recycleBin \in Bins

NextRecycle ==
    \/ GetRecentlyDeletedItems
    \/ RecoverData

SpecRecycle ==
    InitRecycle /\ [][NextRecycle]_vars

\* C8, as stated: when recover_data obtained its list of items, it calls
\* restore() on every one of them, in order, whether or not the restore of
\* an earlier item failed.
C8_EveryItemAttempted ==
    (op.name = "recover_data" /\ ~op.noneArg /\ op.n >= Len(op.got)) =>
        op.attempted = [i \in 1..Len(op.got) |-> op.got[i].id]

\* C10: when get_recently_deleted_items(max_items=N) returns a list for
\* N >= 0, the list has min(N, size of the bin) items; for None it has all
\* of them; the list is in descending order of deletion time, holds items
\* of the bin without repetition, and no item left out was deleted later
\* than an item returned.
C10_MostRecentFirst ==
    (op.name = "get_recently_deleted_items" /\ ~ret.none) =>
        LET r    == ret.items
            rest == {i \in 1..Len(recycleBin) :
                        \A j \in 1..Len(r) : r[j] # recycleBin[i]}
        IN  /\ (~op.noneArg /\ op.n >= 0) => Len(r) = Min(op.n, Len(recycleBin))
            /\ op.noneArg => Len(r) = Len(recycleBin)
            /\ \A i, j \in 1..Len(r) :
                  i < j => /\ r[i].deleted_date >= r[j].deleted_date
                           /\ r[i].id # r[j].id
            /\ \A j \in 1..Len(r) : \E i \in 1..Len(recycleBin) : recycleBin[i] = r[j]
            /\ (op.noneArg \/ op.n >= 0) =>
                  \A i \in rest, j \in 1..Len(r) :
                      recycleBin[i].deleted_date <= r[j].deleted_date

\* C10: a call with N = 2 on a bin of three items, listed oldest first and
\* deleted at three different times, returned the two deleted last.
C10_Witness ==
    /\ op.name = "get_recently_deleted_items"
    /\ ~op.noneArg /\ op.n = 2
    /\ ~ret.none
    /\ Len(recycleBin) = 3
    /\ recycleBin[1].deleted_date < recycleBin[2].deleted_date
    /\ recycleBin[2].deleted_date < recycleBin[3].deleted_date
    /\ ret.items = <<recycleBin[3], recycleBin[2]>>

\* The list that holds every item of the bin once, latest deletion first.
AllItemsLatestFirst(r) ==
    /\ Len(r) = Len(recycleBin)
    /\ \A i \in 1..Len(recycleBin) : \E j \in 1..Len(r) : r[j] = recycleBin[i]
    /\ \A i, j \in 1..Len(r) : i < j => r[i].deleted_date >= r[j].deleted_date

\* C11, as stated: when get_recently_deleted_items returns a list for a
\* falsy max_items (None or 0), the list holds all the items of the bin,
\* latest deletion first.
C11_FalsyReturnsAll ==
    ( /\ op.name = "get_recently_deleted_items"
      /\ ~ret.none
      /\ (op.noneArg \/ op.n = 0) ) =>
        AllItemsLatestFirst(ret.items)

\* C11, amended: when get_recently_deleted_items returns a list, it holds
\* all the items of the bin, latest deletion first, for max_items=None, and
\* it is empty for max_items=0.
C11_OnlyNoneReturnsAll ==
    (op.name = "get_recently_deleted_items" /\ ~ret.none) =>
        /\ op.noneArg => AllItemsLatestFirst(ret.items)
        /\ (~op.noneArg /\ op.n = 0) => ret.items = <<>>

\* C11: a call with max_items=0 on a bin that is not empty returned the
\* empty list.
C11_Witness ==
    /\ op.name = "get_recently_deleted_items"
    /\ ~op.noneArg /\ op.n = 0
    /\ ~ret.none
    /\ recycleBin # <<>>
    /\ ret.items = <<>>

-----------------------------------------------------------------------------
(* Every public method, called in any order: before a folder is bound,     *)
(* with local files that are missing, and with requests that fail.         *)

\* create_sharepoint_folder
create_sharepoint_folder(m, parent_folder_url) ==
    LET m1 == execute_query(Enqueue(m, Req("addFolder", m.folder, parent_folder_url, 0,
                                           "create_sharepoint_folder")))
    IN  IF m.folder = None
        THEN Say(m, "Error creating SharePoint folder", <<>>, parent_folder_url)
        ELSE IF m1.exc
        THEN Say([m1 EXCEPT !.exc = FALSE], "Error creating SharePoint folder", <<>>,
                 parent_folder_url)
        ELSE Say(m1, "Created SharePoint folder", parent_folder_url, parent_folder_url)

\* delete_entire_folder: the folder goes with what it holds; the handle
\* stays bound, and what a later request to the folder meets is among the
\* remote errors a handler can meet.
delete_entire_folder(m) ==
    LET m1 == execute_query(Enqueue(m, Req("deleteEntireFolder", m.folder, <<>>, 0,
                                           "delete_entire_folder")))
    IN  IF m.folder = None
        THEN Say(m, "Error deleting the SharePoint folder", <<>>, <<>>)
        ELSE IF m1.exc
        THEN Say([m1 EXCEPT !.exc = FALSE], "Error deleting the SharePoint folder", <<>>, <<>>)
        ELSE Say(m1, "SharePoint folder and its contents are deleted", <<>>, <<>>)

\* The caller may still call a method.
MayCall ==
    nops < MaxOps

CallGetFiles ==
    /\ MayCall
    /\ \E e \in FaultChoices :
          Commit(get_files(Mach(e)), "get_files", <<>>, NoNum)

CallGetFolders ==
    /\ MayCall
    /\ \E e \in FaultChoices :
          Commit(get_folders(Mach(e)), "get_folders", <<>>, NoNum)

CallCreateSharepointFolder ==
    /\ MayCall
    /\ \E d \in InitialFolders, e \in FaultChoices :
          Commit(create_sharepoint_folder(Mach(e), d), "create_sharepoint_folder",
                 <<d>>, NoNum)

CallUploadFile ==
    /\ MayCall
    /\ \E p \in LocalPaths, e \in FaultChoices :
          Commit(upload_file(Mach(e), p), "upload_file", <<p>>, NoNum)

CallUploadFileWithoutOverride ==
    /\ MayCall
    /\ \E p \in LocalPaths, e \in FaultChoices :
          Commit(upload_file_without_override(Mach(e), p),
                 "upload_file_without_override", <<p>>, NoNum)

CallUploadMultipleFiles ==
    /\ MayCall
    /\ \E ps \in PathLists, e \in FaultChoices :
          Commit(upload_multiple_files(Mach(e), ps), "upload_multiple_files", ps, NoNum)

CallUploadMultipleFilesWithoutOverride ==
    /\ MayCall
    /\ \E ps \in PathLists, e \in FaultChoices :
          Commit(upload_multiple_files_without_override(Mach(e), ps),
                 "upload_multiple_files_without_override", ps, NoNum)

CallDeleteFile ==
    /\ MayCall
    /\ \E n \in DeleteNames, e \in FaultChoices :
          Commit(delete_file(Mach(e), n), "delete_file", <<n>>, NoNum)

CallDeleteMultipleFiles ==
    /\ MayCall
    /\ \E ns \in NameLists, e \in FaultChoices :
          Commit(delete_multiple_files(Mach(e), ns), "delete_multiple_files", ns, NoNum)

CallDeleteAllFilesAndFolders ==
    /\ MayCall
    /\ \E e \in FaultChoices :
          Commit(delete_all_files_and_folders(Mach(e)),
                 "delete_all_files_and_folders", <<>>, NoNum)

CallDeleteEntireFolder ==
    /\ MayCall
    /\ \E e \in FaultChoices :
          Commit(delete_entire_folder(Mach(e)), "delete_entire_folder", <<>>, NoNum)

\* The recycle-bin methods, called with None or with a number of items, a
\* remote error at one of the first four requests, or item.restore()
\* raising at the first item.
CallGetRecentlyDeletedItems ==
    /\ MayCall
    /\ \E n \in {NoNum, Num(1)}, e \in FaultChoices :
          Commit(get_recently_deleted_items(Mach(e), n),
                 "get_recently_deleted_items", <<>>, n)

CallRecoverData ==
    /\ MayCall
    /\ \E n \in {NoNum, Num(2)}, e \in 0..4, r \in {0, 1} :
          Commit(recover_data(Mach(e), n, r), "recover_data", <<>>, n)

\* After construction, on a library with one file and one sub-folder and a
\* recycle bin with two items.
InitAnyOrder ==
    /\ instConn = Constructed.conn
    /\ instFM = Constructed.fm
    /\ handles = Constructed.handles
    /\ call = Constructed.call
    /\ folder = None
    /\ existing_files = {}
    /\ remoteFiles = [f \in Folders |-> IF f = "A" THEN { <<"a", ".", "t">> } ELSE {}]
    /\ remoteFolders = [f \in Folders |-> IF f = "A" THEN InitialFolders ELSE {}]
    /\ queue = <<>>
    /\ recycleBin = <<[id |-> 1, deleted_date |-> 1], [id |-> 2, deleted_date |-> 2]>>
    /\ op = NoOp
    /\ out = <<>>
    /\ ret = NoRet
    /\ nops = 0

NextAnyOrder ==
    \/ SetFolderCtx
    \/ CallGetFiles
    \/ CallGetFolders
    \/ CallCreateSharepointFolder
    \/ CallUploadFile
    \/ CallUploadFileWithoutOverride
    \/ CallUploadMultipleFiles
    \/ CallUploadMultipleFilesWithoutOverride
    \/ CallDeleteFile
    \/ CallDeleteMultipleFiles
    \/ CallDeleteAllFilesAndFolders
    \/ CallDeleteEntireFolder
    \/ CallGetRecentlyDeletedItems
    \/ CallRecoverData

SpecAnyOrder ==
    InitAnyOrder /\ [][NextAnyOrder]_vars

-----------------------------------------------------------------------------
(* The constructors on their own: any sequence of constructor calls.       *)

InitSession ==
    /\ instConn = NoObj
    /\ instFM = NoObj
    /\ handles = 0
    /\ call = NoCall
    /\ ManagerIdle
    /\ recycleBin = <<>>

NextSession ==
    \/ NewConnection
    \/ NewFileManager

SpecSession ==
    InitSession /\ [][NextSession]_vars

\* The runs of __new__ made by the last constructor call.
Events ==
    {call.events[i] : i \in 1..Len(call.events)}

Neither(o) ==
    ~UserPair(o) /\ ~ClientPair(o)

Both(o) ==
    UserPair(o) /\ ClientPair(o)

\* The instances the two classes retain.
Retained ==
    {instConn, instFM} \ {NoObj}

C5_RetainedInstanceValid ==
    /\ \A o \in Retained : (UserPair(o) # ClientPair(o)) /\ o.ctx # 0
    /\ \A e \in Events :
          e.raised => (IF e.cls = "SharePointConnection" THEN instConn ELSE instFM) = NoObj

\* C6, as stated: at most one handle is ever created, whatever constructors
\* are called afterwards.
C6_AtMostOneHandle ==
    handles <= 1

-----------------------------------------------------------------------------
(* get_file_name on its own: any known-name set, any file name.            *)

\* File names given to get_file_name: with an extension, without one, with
\* a leading dot, with two dots, with a dot before a separator, and one that
\* already carries a suffix.
NameInputs ==
    { <<"a", ".", "t">>,
      <<"b">>,
      <<".", "b">>,
      <<"a", ".", "t", ".", "g">>,
      <<"d", ".", "e", "/", "f">>,
      <<"a", "_", "1", ".", "t">> }

\* The names get_file_name(f) can try first: f and its first MaxSuffix
\* suffixed forms.
Related(f) ==
    {f} \cup {Suffixed(SplitExt(f).base, n, SplitExt(f).ext) : n \in 1..MaxSuffix}

InitName ==
    /\ instConn = NoObj
    /\ instFM = NoObj
    /\ handles = 0
    /\ call = NoCall
    /\ folder = None
    /\ \E f \in NameInputs : existing_files \in SUBSET Related(f)
    /\ remoteFiles = [f \in Folders |-> {}]
    /\ remoteFolders = [f \in Folders |-> {}]
    /\ queue = <<>>
    /\ recycleBin = <<>>
    /\ op = NoOp
    /\ out = <<>>
    /\ ret = NoRet
    /\ nops = 0

GetFileName ==
    /\ \E f \in NameInputs :
          /\ op' = [NoOp EXCEPT !.name = "get_file_name", !.paths = <<f>>]
          /\ ret' = [none |-> FALSE, name |-> get_file_name(f, existing_files),
                     items |-> <<>>]
    /\ UNCHANGED <<sessionVars, folder, existing_files, remoteFiles, remoteFolders,
                   queue, recycleBin, out, nops>>

NextName ==
    GetFileName

SpecName ==
    InitName /\ [][NextName]_vars

\* C2: get_file_name(f) returns f itself exactly when f is not a known name;
\* otherwise it returns stem_n+ext for the lowest n >= 1 whose name is not
\* known; either way the name returned is not known.
C2_LowestUnusedSuffix ==
    op.name = "get_file_name" =>
        LET f    == op.paths[1]
            se   == SplitExt(f)
            free == {n \in 1..(Cardinality(existing_files) + 1) :
                        Suffixed(se.base, n, se.ext) \notin existing_files}
            n0   == CHOOSE n \in free : \A m \in free : n <= m
        IN  /\ ~ret.none
            /\ se.base \o se.ext = f
            /\ ret.name \notin existing_files
            /\ (ret.name = f) <=> (f \notin existing_files)
            /\ f \in existing_files => ret.name = Suffixed(se.base, n0, se.ext)

\* C2: a name was known together with its first two suffixed forms at
\* least, and a later suffix was returned.
C2_Witness ==
    /\ op.name = "get_file_name"
    /\ op.paths[1] \in existing_files
    /\ \E n \in 3..(MaxSuffix + 1) :
          LET se == SplitExt(op.paths[1])
          IN  ret.name = Suffixed(se.base, n, se.ext)

====
